---- MODULE Spec2Model ----
(***************************************************************************)
(* FlyPathArbitrage: the FlightScanner aggregation / filter pipeline, the  *)
(* seat counter, the flight-cost estimator and the access-token fetch of   *)
(* src/flight_scanner.py, driven as src/main.py drives them.               *)
(*                                                                         *)
(* Python values are encoded as follows.                                   *)
(*   - str that the code parses (durations, prices): a tuple of one-char   *)
(*     strings, <<"P","T","3","H">>; str that is only compared: a string.  *)
(*   - an optional argument: None is <<>>, a supplied value v is <<v>>.    *)
(*   - dict: a record; a key may be absent (tested with DOMAIN).           *)
(*   - float: an exact rational <<n, d>> in lowest terms (d > 0); the      *)
(*     rounding of IEEE doubles is not modelled.                           *)
(*   - the outcome of a call: [kind |-> "return", value, printed] or       *)
(*     [kind |-> "raise", exc].                                            *)
(***************************************************************************)
EXTENDS Integers, Sequences, FiniteSets, TLC

VARIABLES
    flights,    \* the offer list held by the caller (main.py:61)
    call,       \* the last call made on the scanner, with its arguments
    result,     \* the outcome of that call
    pc,         \* the caller's script: "new" (no scanner yet), "start",
                \* "returned" or "terminated"
    access_token,    \* the scanner's self.access_token
    token_calls      \* per get_access_token call so far: the response to the
                     \* request it posted, or NoRequest

vars == <<flights, call, result, pc, access_token, token_calls>>

-----------------------------------------------------------------------------
(* Bounds of the model *)

MaxFlights == 2     \* offers in the list
MaxStops == 2       \* numberOfStops of a segment, and max_stops arguments

-----------------------------------------------------------------------------
(* Python helpers *)

None == <<>>
Some(v) == <<v>>

Return(v, out) == [kind |-> "return", value |-> v, printed |-> out]
Raise(e) == [kind |-> "raise", exc |-> e]

\* truth value of an optional int / list / str argument (`if x`, `x and ...`)
TruthyInt(o) == o # None /\ o[1] # 0
TruthyList(o) == o # None /\ Len(o[1]) > 0
TruthyStr(o) == o # None /\ o[1] # ""

Range(s) == {s[i] : i \in DOMAIN s}

SeqsUpTo(S, n) == UNION {[1..k -> S] : k \in 0..n}

DigitChars == <<"0", "1", "2", "3", "4", "5", "6", "7", "8", "9">>
IsDigit(c) == c \in Range(DigitChars)
DigitVal(c) == (CHOOSE i \in DOMAIN DigitChars : DigitChars[i] = c) - 1

\* int(s) of a run of decimal digits
RECURSIVE PyInt(_)
PyInt(s) ==
    IF s = <<>> THEN 0
    ELSE 10 * PyInt(SubSeq(s, 1, Len(s) - 1)) + DigitVal(s[Len(s)])

-----------------------------------------------------------------------------
(* _get_duration: re.match(r'PT(\d+H)?(\d+M)?', duration_str) *)

\* number of consecutive digits of s from position pos
RECURSIVE DigitRun(_, _)
DigitRun(s, pos) ==
    IF pos <= Len(s) /\ IsDigit(s[pos]) THEN 1 + DigitRun(s, pos + 1) ELSE 0

\* variant: the group is (\dX)?, a single digit
GroupOneDigit(s, pos, X) ==
    IF pos + 1 <= Len(s) /\ IsDigit(s[pos]) /\ s[pos + 1] = X
    THEN SubSeq(s, pos, pos + 1) ELSE <<>>

\* the optional group (\d+X)? tried at pos: the text it captures, <<>> if it
\* does not take part (\d+ is greedy; a shorter run is followed by a digit)
Group(s, pos, X) ==
    LET k == DigitRun(s, pos)
    IN  IF k >= 1 /\ pos + k <= Len(s) /\ s[pos + k] = X
        THEN SubSeq(s, pos, pos + k) ELSE <<>>

re_match(s) ==
    IF Len(s) >= 2 /\ s[1] = "P" /\ s[2] = "T"
    THEN LET g1 == Group(s, 3, "H")
             g2 == Group(s, 3 + Len(g1), "M")
         IN  [matched |-> TRUE, group1 |-> g1, group2 |-> g2]
    ELSE [matched |-> FALSE, group1 |-> <<>>, group2 |-> <<>>]

\* match is None: match.group raises AttributeError
_get_duration_raises(duration_str) == ~re_match(duration_str).matched

_get_duration(duration_str) ==
    LET match == re_match(duration_str)
        hours == IF match.group1 # <<>>
                 THEN PyInt(SubSeq(match.group1, 1, Len(match.group1) - 1)) ELSE 0
        minutes == IF match.group2 # <<>>
                   THEN PyInt(SubSeq(match.group2, 1, Len(match.group2) - 1)) ELSE 0
    IN  hours * 60 + minutes

-----------------------------------------------------------------------------
(* Offer records, as the search API returns them *)

Segment(id, stops) == [id |-> id, numberOfStops |-> stops]
Itinerary(duration, segments) == [duration |-> duration, segments |-> segments]
Fare(segmentId, cabin) == [segmentId |-> segmentId, cabin |-> cabin]
Traveler(total, fares) ==
    [price |-> [total |-> total], fareDetailsBySegment |-> fares]
Offer(airline, total, grandTotal, itineraries, travelers) ==
    [validatingAirlineCodes |-> <<airline>>,
     price |-> [total |-> total, grandTotal |-> grandTotal],
     itineraries |-> itineraries,
     travelerPricings |-> travelers]

PT45M == <<"P", "T", "4", "5", "M">>
PT2H30M == <<"P", "T", "2", "H", "3", "0", "M">>
PT3H == <<"P", "T", "3", "H">>

P80 == <<"8", "0", ".", "0", "0">>
P100 == <<"1", "0", "0", ".", "0", "0">>
P120_5 == <<"1", "2", "0", ".", "5", "0">>
P300 == <<"3", "0", "0">>

ECO == Fare("1", "ECONOMY")
BUS == Fare("1", "BUSINESS")

-----------------------------------------------------------------------------
(* filter_flights *)

DurationExcludes(itinerary, max_duration) ==
    TruthyInt(max_duration) /\ _get_duration(itinerary.duration) > max_duration[1]

StopsExcludes(itinerary, max_stops) ==
    /\ TruthyInt(max_stops)
    /\ \E i \in DOMAIN itinerary.segments :
           itinerary.segments[i].numberOfStops > max_stops[1]

AirlineExcludes(flight, airlines) ==
    TruthyList(airlines) /\ flight.validatingAirlineCodes[1] \notin Range(airlines[1])

\* variant: the offer is dropped only when no traveler at all quotes the cabin
CabinExcludesIfNoTraveler(flight, cabin_class) ==
    /\ TruthyStr(cabin_class)
    /\ \A t \in DOMAIN flight.travelerPricings :
           \A d \in DOMAIN flight.travelerPricings[t].fareDetailsBySegment :
               flight.travelerPricings[t].fareDetailsBySegment[d].cabin # cabin_class[1]

CabinExcludes(flight, cabin_class) ==
    /\ TruthyStr(cabin_class)
    /\ \E t \in DOMAIN flight.travelerPricings :
           \A d \in DOMAIN flight.travelerPricings[t].fareDetailsBySegment :
               flight.travelerPricings[t].fareDetailsBySegment[d].cabin # cabin_class[1]

\* the value of add_flight after the loop over flight['itineraries']
add_flight(flight, c) ==
    \A i \in DOMAIN flight.itineraries :
        /\ ~DurationExcludes(flight.itineraries[i], c.max_duration)
        /\ ~StopsExcludes(flight.itineraries[i], c.max_stops)
        /\ ~AirlineExcludes(flight, c.airlines)
        /\ ~CabinExcludes(flight, c.cabin_class)

\* variant: kept offers are collected in reverse order
RECURSIVE filtered_flights_reversed(_, _)
filtered_flights_reversed(fs, c) ==
    IF fs = <<>> THEN <<>>
    ELSE LET rest == filtered_flights_reversed(Tail(fs), c)
         IN  IF add_flight(Head(fs), c) THEN Append(rest, Head(fs)) ELSE rest

\* filtered_flights after the loop over flights (append in input order)
RECURSIVE filtered_flights(_, _)
filtered_flights(fs, c) ==
    IF fs = <<>> THEN <<>>
    ELSE LET rest == filtered_flights(Tail(fs), c)
         IN  IF add_flight(Head(fs), c) THEN <<Head(fs)>> \o rest ELSE rest

\* _get_duration is called on every itinerary when max_duration is truthy
filter_flights(fs, c) ==
    IF /\ TruthyInt(c.max_duration)
       /\ \E f \in DOMAIN fs : \E i \in DOMAIN fs[f].itineraries :
              _get_duration_raises(fs[f].itineraries[i].duration)
    THEN Raise("AttributeError")
    ELSE Return(filtered_flights(fs, c), <<>>)

-----------------------------------------------------------------------------
(* The offers and the arguments the filter is exercised on *)

Airlines == {"AF", "BA"}

P1DT2H == <<"P", "1", "D", "T", "2", "H">>

OneWay == <<Itinerary(PT45M, <<Segment("1", 0)>>)>>
OneEconomy == <<Traveler(P100, <<ECO>>)>>

FilterItineraries ==
    {<<>>}
    \cup {<<Itinerary(PT45M, <<Segment("1", s)>>)>> : s \in 0..MaxStops}
    \cup {<<Itinerary(PT2H30M, <<Segment("1", 0), Segment("2", MaxStops)>>),
            Itinerary(PT3H, <<Segment("3", 0)>>)>>,
          <<Itinerary(P1DT2H, <<Segment("1", 0)>>)>>}

FilterTravelers ==
    {<<>>,
     <<Traveler(P100, <<>>)>>,
     <<Traveler(P100, <<ECO>>)>>,
     <<Traveler(P300, <<BUS>>)>>,
     <<Traveler(P100, <<ECO>>), Traveler(P300, <<BUS>>)>>,
     <<Traveler(P100, <<ECO, Fare("2", "BUSINESS")>>), Traveler(P80, <<ECO>>)>>}

FilterOffers ==
    {Offer("AF", P100, P120_5, it, OneEconomy) : it \in FilterItineraries}
    \cup {Offer("AF", P100, P120_5, OneWay, t) : t \in FilterTravelers}
    \cup {Offer("BA", P100, P120_5, it, t) :
              it \in {<<>>, OneWay}, t \in {<<Traveler(P300, <<BUS>>)>>}}

MaxDurationArgs == {None, Some(60), Some(150)}
MaxStopsArgs == {None} \cup {Some(n) : n \in 0..MaxStops}
AirlinesArgs == {None, Some(<<>>), Some(<<"AF">>), Some(<<"AF", "5O">>)}
CabinArgs == {None, Some(""), Some("ECONOMY"), Some("BUSINESS")}

-----------------------------------------------------------------------------
(* The caller (main.py): a call that raises is not caught and ends the run *)

NoCall == [fn |-> "none"]
NoResult == [kind |-> "none"]

After(outcome) == IF outcome.kind = "raise" THEN "terminated" ELSE "returned"

-----------------------------------------------------------------------------
(* get_access_token and __init__ *)

MaxTokenCalls == 4   \* get_access_token calls in a run, the one of __init__ included

\* what requests.post produces: a response of the token endpoint (a 200
\* carries a non-empty access_token) or a connection failure
TokenResponse(status_code, token) ==
    [kind |-> "response", status_code |-> status_code, access_token |-> token]
ConnectionFailure == [kind |-> "error"]
NoRequest == [kind |-> "none"]

Tokens == {"tokA", "tokB"}

TokenResponses ==
    {TokenResponse(200, t) : t \in Tokens}
    \cup {TokenResponse(401, ""), TokenResponse(500, "")}
    \cup {ConnectionFailure}

\* variant: the token is requested on every call
token_missing_always(token) == TRUE

\* `if not self.access_token`
token_missing(token) == ~TruthyStr(token)

\* self.access_token when get_access_token ends, the response being the one
\* requests.post produces if it is called
token_after(token, response) ==
    IF token_missing(token) /\ response.kind = "response" /\ response.status_code = 200
    THEN Some(response.access_token)
    ELSE token

get_access_token(token, response) ==
    IF token_missing(token) /\ response.kind = "error" THEN Raise("ConnectionError")
    ELSE IF token_missing(token) /\ response.status_code # 200
    THEN Return(token_after(token, response),
                <<<<"Failed to obtain access token: ", response.status_code, " - ">>>>)
    ELSE Return(token_after(token, response), <<>>)

GetAccessToken(response) ==
    /\ pc = "start"
    /\ Len(token_calls) < MaxTokenCalls
    /\ call' = [fn |-> "get_access_token"]
    /\ result' = get_access_token(access_token, response)
    /\ access_token' = token_after(access_token, response)
    /\ token_calls' = Append(token_calls, IF token_missing(access_token)
                                          THEN response ELSE NoRequest)
    /\ pc' = After(result')
    /\ UNCHANGED flights

\* FlightScanner(...): self.access_token = None, then self.get_access_token()
Construct(response) ==
    /\ pc = "new"
    /\ call' = [fn |-> "__init__"]
    /\ result' = IF get_access_token(None, response).kind = "raise"
                 THEN get_access_token(None, response)
                 ELSE Return(None, get_access_token(None, response).printed)
    /\ access_token' = token_after(None, response)
    /\ token_calls' = Append(token_calls, IF token_missing(None)
                                          THEN response ELSE NoRequest)
    /\ pc' = After(result')
    /\ UNCHANGED flights

\* the script goes on to its next statement
Proceed ==
    /\ pc = "returned"
    /\ pc' = "start"
    /\ call' = NoCall
    /\ result' = NoResult
    /\ UNCHANGED <<flights, access_token, token_calls>>

InitToken ==
    /\ flights = <<>>
    /\ call = NoCall
    /\ result = NoResult
    /\ pc = "new"
    /\ access_token = None
    /\ token_calls = <<>>

NextToken ==
    \/ \E response \in TokenResponses : Construct(response)
    \/ \E response \in TokenResponses : GetAccessToken(response)
    \/ Proceed

SpecToken == InitToken /\ [][NextToken]_vars

\* a scanner whose construction returned, with or without a token
Constructed ==
    \E response \in {TokenResponse(200, "tokA"), TokenResponse(401, "")} :
        /\ access_token = token_after(None, response)
        /\ token_calls = <<response>>

FilterFlights(max_duration, max_stops, airlines, cabin_class) ==
    /\ pc = "start"
    /\ call' = [fn |-> "filter_flights", max_duration |-> max_duration,
                max_stops |-> max_stops, airlines |-> airlines,
                cabin_class |-> cabin_class]
    /\ result' = filter_flights(flights, call')
    /\ pc' = After(result')
    /\ UNCHANGED <<flights, access_token, token_calls>>

InitFilter ==
    /\ flights \in SeqsUpTo(FilterOffers, MaxFlights)
    /\ call = NoCall
    /\ result = NoResult
    /\ pc = "start"
    /\ Constructed

NextFilter ==
    \E d \in MaxDurationArgs, s \in MaxStopsArgs, a \in AirlinesArgs, c \in CabinArgs :
        FilterFlights(d, s, a, c)

SpecFilter == InitFilter /\ [][NextFilter]_vars

-----------------------------------------------------------------------------
(* count_seats *)

MaxPricings == 2    \* travelerPricing entries of a seat
MaxSeats == 2       \* seats of a deck
MaxDecks == 2       \* decks of a seat map

\* dict.get(key, default)
Get(dict, key, default) == IF key \in DOMAIN dict THEN dict[key] ELSE default

RECURSIVE SumSeq(_)
SumSeq(s) == IF s = <<>> THEN 0 ELSE Head(s) + SumSeq(Tail(s))

UnexpectedMsg == "Unexpected seat map data structure or empty data."

\* `seatmap_data and isinstance(seatmap_data, dict) and 'data' in seatmap_data`
HasData(seatmap_data) ==
    /\ seatmap_data.type = "dict"
    /\ DOMAIN seatmap_data.dict # {}
    /\ "data" \in DOMAIN seatmap_data.dict

\* what the loop over seat.get('travelerPricing', []) adds to available_seats
SeatAvailable(seat) ==
    LET pricings == Get(seat, "travelerPricing", <<>>)
    IN  SumSeq([p \in DOMAIN pricings |->
                   IF Get(pricings[p], "seatAvailabilityStatus", "None") = "AVAILABLE"
                   THEN 1 ELSE 0])

DeckAvailable(deck) ==
    LET seats == Get(deck, "seats", <<>>)
    IN  SumSeq([i \in DOMAIN seats |-> SeatAvailable(seats[i])])

DeckTotal(deck) == Len(Get(deck, "seats", <<>>))

count_seats(seatmap_data) ==
    IF HasData(seatmap_data)
    THEN IF Len(seatmap_data.dict.data) = 0
         THEN Raise("IndexError")
         ELSE LET seatmap == seatmap_data.dict.data[1]
                  decks == Get(seatmap, "decks", <<>>)
                  available_seats == SumSeq([d \in DOMAIN decks |-> DeckAvailable(decks[d])])
                  total_seats == SumSeq([d \in DOMAIN decks |-> DeckTotal(decks[d])])
              IN  Return(<<available_seats, total_seats>>, <<>>)
    ELSE Return(<<0, 0>>, <<UnexpectedMsg>>)

(* The seat-map responses count_seats is exercised on *)

Pricing(status) == [travelerId |-> "1", seatAvailabilityStatus |-> status]
Seat(pricings) == [number |-> "1A", travelerPricing |-> pricings]
Deck(seats) == [deckType |-> "MAIN", seats |-> seats]
SeatMap(decks) == [type |-> "seatmap", decks |-> decks]
Response(data) == [type |-> "dict", dict |-> [data |-> data]]

Pricings == {Pricing(st) : st \in {"AVAILABLE", "BLOCKED"}}
Seats == {Seat(p) : p \in SeqsUpTo(Pricings, MaxPricings)} \cup {[number |-> "1A"]}
Decks == {Deck(ss) : ss \in SeqsUpTo(Seats, MaxSeats)} \cup {[deckType |-> "MAIN"]}
SeatMaps == {SeatMap(ds) : ds \in SeqsUpTo(Decks, MaxDecks)} \cup {[type |-> "seatmap"]}

SeatMapResponses ==
    {Response(<<m>>) : m \in SeatMaps}
    \cup {Response(<<>>),
          [type |-> "NoneType"],
          [type |-> "list"],
          [type |-> "dict", dict |-> [errors |-> <<>>]]}

CountSeats(seatmap_data) ==
    /\ pc = "start"
    /\ call' = [fn |-> "count_seats", seatmap_data |-> seatmap_data]
    /\ result' = count_seats(seatmap_data)
    /\ pc' = After(result')
    /\ UNCHANGED <<flights, access_token, token_calls>>

InitSeats ==
    /\ flights = <<>>
    /\ call = NoCall
    /\ result = NoResult
    /\ pc = "start"
    /\ Constructed

NextSeats == \E m \in SeatMapResponses : CountSeats(m)

SpecSeats == InitSeats /\ [][NextSeats]_vars

-----------------------------------------------------------------------------
(* float arithmetic, exact: <<n, d>> with d > 0 in lowest terms *)

Abs(n) == IF n < 0 THEN -n ELSE n

RECURSIVE GCD(_, _)
GCD(a, b) == IF b = 0 THEN a ELSE GCD(b, a % b)

Norm(n, d) == LET g == GCD(Abs(n), d) IN <<n \div g, d \div g>>

FromInt(n) == <<n, 1>>

RAdd(a, b) ==
    LET l == (a[2] \div GCD(a[2], b[2])) * b[2]
    IN  Norm(a[1] * (l \div a[2]) + b[1] * (l \div b[2]), l)

RSub(a, b) == RAdd(a, <<-b[1], b[2]>>)

RMul(a, b) ==
    LET g1 == GCD(Abs(a[1]), b[2])
        g2 == GCD(Abs(b[1]), a[2])
    IN  Norm((a[1] \div g1) * (b[1] \div g2), (a[2] \div g2) * (b[2] \div g1))

\* a / b for b > 0
RDiv(a, b) == RMul(a, <<b[2], b[1]>>)

RLess(a, b) ==
    LET l == (a[2] \div GCD(a[2], b[2])) * b[2]
    IN  a[1] * (l \div a[2]) < b[1] * (l \div b[2])

-----------------------------------------------------------------------------
(* calculate_distance and estimate_flight_cost *)

fuel_consumption_per_hour == 2500
average_speed_kmh == 850
crew_cost_per_hour == 500
airport_fees == 2000
maintenance_cost_per_hour == 800
oew == 41413
passenger_weight == 100

\* geopy's geodesic(a, b).km, for airports laid out on one line: a coordinate
\* pair is <<x, 0>>, x in km
geodesic_km(a, b) == FromInt(Abs(a[1] - b[1]))

\* coordinates are None (<<>>) when the geocoder finds no result
calculate_distance(departure_coords, arrival_coords) ==
    IF departure_coords # None /\ arrival_coords # None
    THEN Return(geodesic_km(departure_coords, arrival_coords), <<>>)
    ELSE Return(None, <<"Impossible de calculer la distance, coordonnees manquantes.">>)

flight_duration_hours(distance_km) == RDiv(distance_km, FromInt(average_speed_kmh))

weight_factor(passengers) ==
    RDiv(FromInt(oew + passengers * passenger_weight), FromInt(oew))

adjusted_fuel_consumption_per_hour(passengers) ==
    RMul(FromInt(fuel_consumption_per_hour),
         RAdd(FromInt(1), RMul(<<1, 200>>, RSub(weight_factor(passengers), FromInt(1)))))

total_fuel_needed(passengers, distance_km) ==
    RMul(adjusted_fuel_consumption_per_hour(passengers),
         flight_duration_hours(distance_km))

\* variant: the fuel price is left out of the fuel cost
fuel_cost_unpriced(passengers, distance_km, fuel_price_per_litre) ==
    total_fuel_needed(passengers, distance_km)

fuel_cost(passengers, distance_km, fuel_price_per_litre) ==
    RMul(total_fuel_needed(passengers, distance_km), fuel_price_per_litre)

total_cost(passengers, distance_km, fuel_price_per_litre) ==
    LET crew_cost == RMul(FromInt(crew_cost_per_hour), flight_duration_hours(distance_km))
        maintenance_cost ==
            RMul(FromInt(maintenance_cost_per_hour), flight_duration_hours(distance_km))
    IN  RAdd(RAdd(RAdd(fuel_cost(passengers, distance_km, fuel_price_per_litre),
                       crew_cost),
                  FromInt(airport_fees)),
             maintenance_cost)

\* variant: a division by zero yields inf (<<1, 0>>), as numpy floats do
cost_per_passenger_inf(total, passengers) ==
    IF passengers = 0 THEN [exc |-> "", val |-> <<1, 0>>]
    ELSE [exc |-> "", val |-> RDiv(total, FromInt(passengers))]

\* total_cost / passengers: Python raises ZeroDivisionError on a zero divisor
cost_per_passenger(total, passengers) ==
    IF passengers = 0 THEN [exc |-> "ZeroDivisionError", val |-> <<0, 1>>]
    ELSE [exc |-> "", val |-> RDiv(total, FromInt(passengers))]

estimate_flight_cost(passengers, departure_coords, arrival_coords, fuel_price_per_litre) ==
    LET distance_km == calculate_distance(departure_coords, arrival_coords).value
    IN  IF distance_km = None
        THEN Raise("TypeError")      \* None / average_speed_kmh
        ELSE LET total == total_cost(passengers, distance_km, fuel_price_per_litre)
                 per == cost_per_passenger(total, passengers)
             IN  IF per.exc # ""
                 THEN Raise(per.exc)
                 ELSE Return([total_cost |-> total,
                              cost_per_passenger |-> per.val,
                              flight_duration_hours |-> flight_duration_hours(distance_km),
                              total_fuel_needed |-> total_fuel_needed(passengers, distance_km)],
                             <<>>)

(* The inputs the estimator is exercised on *)

MaxPassengers == 3      \* passengers 0..MaxPassengers, and the 150 of main.py
MaxFuelPrice == 3       \* fuel price 0.0 .. MaxFuelPrice/10, and the 1.2 of main.py
MaxLegs == 2            \* airports lie 850 km apart, at most MaxLegs legs

PassengerArgs == 0..MaxPassengers \cup {150}
FuelPriceArgs == {Norm(k, 10) : k \in 0..MaxFuelPrice} \cup {Norm(12, 10)}
\* what get_airport_coordinates answers for an IATA code
Coordinates == {None} \cup {<<k * average_speed_kmh, 0>> : k \in 0..MaxLegs}

EstimateFlightCost(passengers, departure_coords, arrival_coords, fuel_price_per_litre) ==
    /\ pc = "start"
    /\ call' = [fn |-> "estimate_flight_cost", passengers |-> passengers,
                departure_coords |-> departure_coords,
                arrival_coords |-> arrival_coords,
                fuel_price_per_litre |-> fuel_price_per_litre]
    /\ result' = estimate_flight_cost(passengers, departure_coords, arrival_coords,
                                      fuel_price_per_litre)
    /\ pc' = After(result')
    /\ UNCHANGED <<flights, access_token, token_calls>>

InitCost ==
    /\ flights = <<>>
    /\ call = NoCall
    /\ result = NoResult
    /\ pc = "start"
    /\ Constructed

NextCost ==
    \E p \in PassengerArgs, d \in Coordinates, a \in Coordinates, f \in FuelPriceArgs :
        EstimateFlightCost(p, d, a, f)

SpecCost == InitCost /\ [][NextCost]_vars

-----------------------------------------------------------------------------
(* calculate_statistics *)

RECURSIVE Pow10(_)
Pow10(k) == IF k = 0 THEN 1 ELSE 10 * Pow10(k - 1)

\* float(s) of a decimal price string, "120.50" or "300"
PyFloat(s) ==
    IF \E i \in DOMAIN s : s[i] = "."
    THEN LET k == CHOOSE i \in DOMAIN s : s[i] = "."
             whole == SubSeq(s, 1, k - 1)
             frac == SubSeq(s, k + 1, Len(s))
         IN  Norm(PyInt(whole) * Pow10(Len(frac)) + PyInt(frac), Pow10(Len(frac)))
    ELSE FromInt(PyInt(s))

\* variant: the price is read from grandTotal
flight_grand_total(flight) == PyFloat(flight.price.grandTotal)

\* float(flight['price']['total'])
flight_total(flight) == PyFloat(flight.price.total)

\* the dict airline_prices after the loop over flights: airline code -> prices
RECURSIVE airline_prices(_)
airline_prices(fs) ==
    IF fs = <<>> THEN <<>>
    ELSE LET prev == airline_prices(SubSeq(fs, 1, Len(fs) - 1))
             flight == fs[Len(fs)]
             airline_code == flight.validatingAirlineCodes[1]
             price == flight_total(flight)
         IN  IF airline_code \in DOMAIN prev
             THEN [prev EXCEPT ![airline_code] = Append(@, price)]
             ELSE prev @@ (airline_code :> <<price>>)

RECURSIVE RSum(_)
RSum(prices) == IF prices = <<>> THEN FromInt(0) ELSE RAdd(Head(prices), RSum(Tail(prices)))

\* numpy.mean of a non-empty list
np_mean(prices) == RDiv(RSum(prices), FromInt(Len(prices)))

\* x inserted into the sorted list s, after the elements not greater than it
RECURSIVE Insert(_, _)
Insert(s, x) ==
    IF s = <<>> THEN <<x>>
    ELSE IF RLess(x, Head(s)) THEN <<x>> \o s
    ELSE <<Head(s)>> \o Insert(Tail(s), x)

RECURSIVE sorted(_)
sorted(prices) ==
    IF prices = <<>> THEN <<>>
    ELSE Insert(sorted(SubSeq(prices, 1, Len(prices) - 1)), prices[Len(prices)])

\* statistics.median of a non-empty list
median(prices) ==
    LET data == sorted(prices)
        n == Len(data)
    IN  IF n % 2 = 1 THEN data[n \div 2 + 1]
        ELSE RDiv(RAdd(data[n \div 2], data[n \div 2 + 1]), FromInt(2))

\* variant: the number of offers is reported beside the airlines
calculate_statistics_counted(fs) ==
    LET prices == airline_prices(fs)
    IN  [airline_code \in DOMAIN prices \cup {"count"} |->
            IF airline_code = "count" THEN Len(fs)
            ELSE [mean |-> np_mean(prices[airline_code]),
                  median |-> median(prices[airline_code])]]

calculate_statistics(fs) ==
    LET prices == airline_prices(fs)
    IN  [airline_code \in DOMAIN prices |->
            [mean |-> np_mean(prices[airline_code]),
             median |-> median(prices[airline_code])]]

(* The offers the statistics are exercised on *)

MaxPricedFlights == 4   \* offers in the list

PricedOffers ==
    {Offer(a, t, P300, OneWay, OneEconomy) : a \in Airlines, t \in {P80, P100, P120_5}}

CalculateStatistics ==
    /\ pc = "start"
    /\ call' = [fn |-> "calculate_statistics"]
    /\ result' = Return(calculate_statistics(flights), <<>>)
    /\ pc' = After(result')
    /\ UNCHANGED <<flights, access_token, token_calls>>

InitStats ==
    /\ flights \in SeqsUpTo(PricedOffers, MaxPricedFlights)
    /\ call = NoCall
    /\ result = NoResult
    /\ pc = "start"
    /\ Constructed

NextStats == CalculateStatistics

SpecStats == InitStats /\ [][NextStats]_vars

-----------------------------------------------------------------------------
(* The duration strings _get_duration is exercised on: ISO 8601 durations
   P[nD]T[nH][nM][nS] with at least one component *)

MaxHours == 10     \* largest hour count
MaxMinutes == 45   \* largest minute count

\* str(n) of a non-negative int
RECURSIVE PyStr(_)
PyStr(n) ==
    IF n < 10 THEN <<DigitChars[n + 1]>>
    ELSE PyStr(n \div 10) \o <<DigitChars[(n % 10) + 1]>>

Component(o, X) == IF o = None THEN <<>> ELSE PyStr(o[1]) \o <<X>>

FormatDuration(parts) ==
    <<"P">> \o Component(parts.days, "D")
    \o (IF parts.hours = None /\ parts.minutes = None /\ parts.seconds = None
        THEN <<>> ELSE <<"T">>)
    \o Component(parts.hours, "H") \o Component(parts.minutes, "M")
    \o Component(parts.seconds, "S")

DurationParts ==
    {parts \in [days : {None, Some(1)},
                hours : {None} \cup {Some(h) : h \in 0..MaxHours},
                minutes : {None} \cup {Some(m) : m \in 0..MaxMinutes},
                seconds : {None, Some(30)}] :
        parts # [days |-> None, hours |-> None, minutes |-> None, seconds |-> None]}

GetDuration(parts) ==
    /\ pc = "start"
    /\ call' = [fn |-> "_get_duration", duration_str |-> FormatDuration(parts)]
    /\ result' = IF _get_duration_raises(call'.duration_str)
                 THEN Raise("AttributeError")
                 ELSE Return(_get_duration(call'.duration_str), <<>>)
    /\ pc' = After(result')
    /\ UNCHANGED <<flights, access_token, token_calls>>

InitDuration ==
    /\ flights = <<>>
    /\ call = NoCall
    /\ result = NoResult
    /\ pc = "start"
    /\ Constructed

NextDuration == \E parts \in DurationParts : GetDuration(parts)

SpecDuration == InitDuration /\ [][NextDuration]_vars

-----------------------------------------------------------------------------
(* compare_cabins *)

\* variant: the price of the last traveler quoting the cabin is kept
cabin_update_last(cabin_comparison, cabin, price) ==
    IF cabin \notin DOMAIN cabin_comparison
    THEN cabin_comparison @@ (cabin :> price)
    ELSE [cabin_comparison EXCEPT ![cabin] = price]

\* `if cabin not in cabin_comparison or price < cabin_comparison[cabin]`
cabin_update(cabin_comparison, cabin, price) ==
    IF cabin \notin DOMAIN cabin_comparison
    THEN cabin_comparison @@ (cabin :> price)
    ELSE IF RLess(price, cabin_comparison[cabin])
         THEN [cabin_comparison EXCEPT ![cabin] = price]
         ELSE cabin_comparison

\* the loop over traveler['fareDetailsBySegment']
RECURSIVE cabin_fares(_, _, _)
cabin_fares(cabin_comparison, traveler, fares) ==
    IF fares = <<>> THEN cabin_comparison
    ELSE cabin_fares(cabin_update(cabin_comparison, Head(fares).cabin,
                                  PyFloat(traveler.price.total)),
                     traveler, Tail(fares))

\* the loop over flight['travelerPricings']
RECURSIVE cabin_travelers(_, _)
cabin_travelers(cabin_comparison, travelers) ==
    IF travelers = <<>> THEN cabin_comparison
    ELSE cabin_travelers(cabin_fares(cabin_comparison, Head(travelers),
                                     Head(travelers).fareDetailsBySegment),
                         Tail(travelers))

compare_cabins(fs) ==
    [i \in DOMAIN fs |-> cabin_travelers(<<>>, fs[i].travelerPricings)]

-----------------------------------------------------------------------------
(* calculate_average_price_by_airline *)

\* the defaultdict price_by_airline after the loop: airline -> grandTotals
RECURSIVE price_by_airline(_)
price_by_airline(fs) ==
    IF fs = <<>> THEN <<>>
    ELSE LET prev == price_by_airline(SubSeq(fs, 1, Len(fs) - 1))
             flight == fs[Len(fs)]
             airline == flight.validatingAirlineCodes[1]
             price == PyFloat(flight.price.grandTotal)
         IN  IF airline \in DOMAIN prev
             THEN [prev EXCEPT ![airline] = Append(@, price)]
             ELSE prev @@ (airline :> <<price>>)

calculate_average_price_by_airline(fs) ==
    LET prices == price_by_airline(fs)
    IN  [airline \in DOMAIN prices |->
            RDiv(RSum(prices[airline]), FromInt(Len(prices[airline])))]

-----------------------------------------------------------------------------
(* _get_weekday and analyze_prices_by_weekday *)

DayNames ==
    <<"Monday", "Tuesday", "Wednesday", "Thursday", "Friday", "Saturday", "Sunday">>

DaysBeforeMonth == <<0, 31, 59, 90, 120, 151, 181, 212, 243, 273, 304, 334>>

is_leap(year) == year % 4 = 0 /\ (year % 100 # 0 \/ year % 400 = 0)

\* proleptic Gregorian ordinal of year-month-day, 0001-01-01 being day 1
ymd2ord(year, month, day) ==
    LET y == year - 1
    IN  (y * 365) + (y \div 4) - (y \div 100) + (y \div 400)
        + DaysBeforeMonth[month] + (IF month > 2 /\ is_leap(year) THEN 1 ELSE 0)
        + day

\* datetime.fromisoformat(date_str).strftime('%A') of a well-formed
\* YYYY-MM-DDTHH:MM:SS string
_get_weekday(date_str) ==
    LET year == PyInt(SubSeq(date_str, 1, 4))
        month == PyInt(SubSeq(date_str, 6, 7))
        day == PyInt(SubSeq(date_str, 9, 10))
    IN  DayNames[((ymd2ord(year, month, day) + 6) % 7) + 1]

RECURSIVE Flatten(_)
Flatten(seqs) == IF seqs = <<>> THEN <<>> ELSE Head(seqs) \o Flatten(Tail(seqs))

\* x without the elements that occurred earlier in it
RECURSIVE Distinct(_)
Distinct(x) ==
    IF x = <<>> THEN <<>>
    ELSE LET init == Distinct(SubSeq(x, 1, Len(x) - 1))
         IN  IF \E i \in DOMAIN init : init[i] = x[Len(x)] THEN init
             ELSE Append(init, x[Len(x)])

\* variant: a weekday is counted once per offer
segment_days_once(flight) ==
    Distinct(Flatten([j \in DOMAIN flight.itineraries |->
                [k \in DOMAIN flight.itineraries[j].segments |->
                    _get_weekday(flight.itineraries[j].segments[k].departure.at)]]))

\* the departure weekday of every segment of every itinerary of the offer,
\* in loop order
segment_days(flight) ==
    Flatten([j \in DOMAIN flight.itineraries |->
                [k \in DOMAIN flight.itineraries[j].segments |->
                    _get_weekday(flight.itineraries[j].segments[k].departure.at)]])

\* prices_by_day and count_by_day after the segments of one offer
RECURSIVE accumulate(_, _, _)
accumulate(by_day, days, price) ==
    IF days = <<>> THEN by_day
    ELSE LET departure_day == Head(days)
             started == IF departure_day \notin DOMAIN by_day.prices
                        THEN [prices |-> by_day.prices @@ (departure_day :> FromInt(0)),
                              count |-> by_day.count @@ (departure_day :> 0)]
                        ELSE by_day
         IN  accumulate([prices |-> [started.prices EXCEPT ![departure_day] = RAdd(@, price)],
                         count |-> [started.count EXCEPT ![departure_day] = @ + 1]],
                        Tail(days), price)

\* prices_by_day and count_by_day after the loop over flights
RECURSIVE by_day_totals(_)
by_day_totals(fs) ==
    IF fs = <<>> THEN [prices |-> <<>>, count |-> <<>>]
    ELSE accumulate(by_day_totals(SubSeq(fs, 1, Len(fs) - 1)),
                    segment_days(fs[Len(fs)]),
                    PyFloat(fs[Len(fs)].price.grandTotal))

analyze_prices_by_weekday(fs) ==
    LET by_day == by_day_totals(fs)
    IN  [day \in DOMAIN by_day.prices |->
            RDiv(by_day.prices[day], FromInt(by_day.count[day]))]

-----------------------------------------------------------------------------
(* display_flight_options and display_cabin_classes.  A printed line is the
   tuple of the pieces of its f-string. *)

\* {k: v for ...} over a list of fare details: a later entry replaces an
\* earlier one with the same segmentId
RECURSIVE dict_of_fares(_)
dict_of_fares(fares) ==
    IF fares = <<>> THEN <<>>
    ELSE LET prev == dict_of_fares(SubSeq(fares, 1, Len(fares) - 1))
             fare == fares[Len(fares)]
         IN  IF fare.segmentId \in DOMAIN prev
             THEN [prev EXCEPT ![fare.segmentId] = fare.cabin]
             ELSE prev @@ (fare.segmentId :> fare.cabin)

\* variant: the first entry of a segmentId is kept
RECURSIVE dict_of_fares_first(_)
dict_of_fares_first(fares) ==
    IF fares = <<>> THEN <<>>
    ELSE LET prev == dict_of_fares_first(SubSeq(fares, 1, Len(fares) - 1))
             fare == fares[Len(fares)]
         IN  IF fare.segmentId \in DOMAIN prev THEN prev
             ELSE prev @@ (fare.segmentId :> fare.cabin)

fare_details_first(flight) ==
    dict_of_fares_first(Flatten([t \in DOMAIN flight.travelerPricings |->
                                    flight.travelerPricings[t].fareDetailsBySegment]))

\* {fare['segmentId']: fare['cabin'] for traveler in flight['travelerPricings']
\*                                   for fare in traveler['fareDetailsBySegment']}
fare_details(flight) ==
    dict_of_fares(Flatten([t \in DOMAIN flight.travelerPricings |->
                              flight.travelerPricings[t].fareDetailsBySegment]))

\* fare_details.get(segment_id, 'Unknown')
cabin_class_of(flight, segment) == Get(fare_details(flight), segment.id, "Unknown")

all_segments(flight) ==
    Flatten([j \in DOMAIN flight.itineraries |-> flight.itineraries[j].segments])

segment_details(flight, segment, show_cabin_class) ==
    [departure |-> segment.departure.iataCode,
     arrival |-> segment.arrival.iataCode,
     departure_time |-> segment.departure.at,
     arrival_time |-> segment.arrival.at,
     operating_airline |-> segment.carrierCode,
     aircraft |-> segment.aircraft.code,
     number_of_bookable_seats |-> flight.numberOfBookableSeats]
    @@ (IF show_cabin_class THEN "cabin_class" :> cabin_class_of(flight, segment)
        ELSE <<>>)

segment_lines(flight, segment, show_cabin_class) ==
    <<<<"  Segment: ", segment.departure.iataCode, " (", segment.departure.at, ") -> ",
        segment.arrival.iataCode, " (", segment.arrival.at, ")">>,
      <<"    Operating Airline: ", segment.carrierCode, " (", segment.carrierCode, ")">>,
      <<"    Aircraft: ", segment.aircraft.code>>,
      <<"    Number of Bookable Seats: ", flight.numberOfBookableSeats>>>>
    \o (IF show_cabin_class
        THEN <<<<"    Cabin Class: ", cabin_class_of(flight, segment)>>>> ELSE <<>>)

\* option_info of the offer at index idx (show_seat_availability=False)
option_info(flight, idx, c) ==
    ("option" :> <<"Option ", idx + 1, ":">>)
    @@ (IF c.show_airline THEN "airline" :> flight.validatingAirlineCodes[1] ELSE <<>>)
    @@ (IF c.show_price
        THEN "price" :> <<flight.price.grandTotal, " ", flight.price.currency>> ELSE <<>>)
    @@ ("segments" :> [n \in DOMAIN all_segments(flight) |->
                          segment_details(flight, all_segments(flight)[n], c.show_cabin_class)])

option_lines(flight, idx, c) ==
    <<<<"Option ", idx + 1, ":">>>>
    \o (IF c.show_airline
        THEN <<<<"  Airline: ", flight.validatingAirlineCodes[1]>>>> ELSE <<>>)
    \o (IF c.show_price
        THEN <<<<"  Price: ", flight.price.grandTotal, " ", flight.price.currency>>>>
        ELSE <<>>)
    \o Flatten([n \in DOMAIN all_segments(flight) |->
                   segment_lines(flight, all_segments(flight)[n], c.show_cabin_class)])
    \o <<<<"----------------------------------------">>>>

\* c.limit: None for "ALL", Some(n) for an int
display_flight_options(fs, c) ==
    IF fs = <<>> THEN Return(<<>>, <<<<"No flight options found.">>>>)
    ELSE LET limit == IF c.limit # None
                      THEN (IF c.limit[1] < Len(fs) THEN c.limit[1] ELSE Len(fs))
                      ELSE Len(fs)
         IN  Return([i \in 1..limit |-> option_info(fs[i], i - 1, c)],
                    Flatten([i \in 1..limit |-> option_lines(fs[i], i - 1, c)]))

cabin_lines(flight, i) ==
    <<<<"Option ", i, ":">>, <<"  Airline: ", flight.validatingAirlineCodes[1]>>>>
    \o Flatten([k \in DOMAIN flight.itineraries[1].segments |->
                   LET segment == flight.itineraries[1].segments[k]
                   IN  <<<<"  Segment: ", segment.departure.iataCode, " (",
                           segment.departure.at, ") -> ", segment.arrival.iataCode,
                           " (", segment.arrival.at, ")">>,
                         <<"    Cabin Class: ", cabin_class_of(flight, segment)>>>>])
    \o <<<<"----------------------------------------">>>>

\* flight['itineraries'][0] raises IndexError on an offer without itineraries
display_cabin_classes(fs) ==
    IF fs = <<>> THEN Return(None, <<<<"No flight options found.">>>>)
    ELSE IF \E i \in DOMAIN fs : fs[i].itineraries = <<>> THEN Raise("IndexError")
    ELSE Return(None, Flatten([i \in DOMAIN fs |-> cabin_lines(fs[i], i)]))

LimitArgs == {None, Some(0), Some(1), Some(5)}

-----------------------------------------------------------------------------
(* The offers the pipeline of main.py is exercised on: full records *)

WED == <<"2", "0", "2", "5", "-", "0", "3", "-", "2", "6",
         "T", "1", "0", ":", "0", "0", ":", "0", "0">>
THU == <<"2", "0", "2", "5", "-", "0", "3", "-", "2", "7",
         "T", "0", "8", ":", "3", "0", ":", "0", "0">>
SUN == <<"2", "0", "2", "5", "-", "0", "3", "-", "3", "0",
         "T", "2", "3", ":", "5", "9", ":", "0", "0">>
LEAP == <<"2", "0", "2", "4", "-", "0", "2", "-", "2", "9",
          "T", "0", "6", ":", "1", "5", ":", "0", "0">>

FullSegment(id, stops, at) ==
    [id |-> id, numberOfStops |-> stops, duration |-> PT45M,
     departure |-> [iataCode |-> "CDG", at |-> at],
     arrival |-> [iataCode |-> "ALG", at |-> at],
     carrierCode |-> "AF", aircraft |-> [code |-> "320"]]

FullOffer(airline, total, grandTotal, itineraries, travelers) ==
    [validatingAirlineCodes |-> <<airline>>,
     price |-> [total |-> total, grandTotal |-> grandTotal, currency |-> "EUR"],
     numberOfBookableSeats |-> 9,
     itineraries |-> itineraries,
     travelerPricings |-> travelers]

PipelineOffers ==
    {FullOffer("AF", P100, P120_5,
               <<Itinerary(PT45M, <<FullSegment("1", 0, WED)>>)>>,
               <<Traveler(P100, <<ECO>>)>>),
     FullOffer("AF", P80, P100,
               <<Itinerary(PT2H30M, <<FullSegment("1", 0, WED), FullSegment("2", 1, THU)>>)>>,
               <<Traveler(P100, <<ECO>>),
                 Traveler(P80, <<Fare("1", "BUSINESS"), Fare("2", "ECONOMY")>>)>>),
     FullOffer("BA", P300, P300,
               <<Itinerary(PT45M, <<FullSegment("1", 0, THU)>>),
                 Itinerary(PT3H, <<FullSegment("3", 2, SUN)>>)>>,
               <<Traveler(P100, <<ECO>>), Traveler(P80, <<ECO>>), Traveler(P300, <<BUS>>)>>),
     FullOffer("BA", P100, P120_5, <<>>, <<>>),
     FullOffer("AF", P120_5, P300,
               <<Itinerary(PT45M, <<FullSegment("1", 1, LEAP)>>)>>,
               <<Traveler(P300, <<BUS>>), Traveler(P100, <<BUS>>)>>),
     FullOffer("BA", P80, P80,
               <<Itinerary(PT2H30M, <<FullSegment("1", 0, WED), FullSegment("2", 0, WED)>>)>>,
               <<Traveler(P80, <<>>)>>),
     FullOffer("AF", P300, P80,
               <<Itinerary(PT3H, <<FullSegment("1", 0, SUN)>>)>>,
               <<Traveler(P80, <<BUS, ECO>>), Traveler(P100, <<ECO>>)>>)}

\* variant: every offer record receives its mapping as a new field
CompareCabinsInPlace ==
    /\ pc = "start"
    /\ call' = [fn |-> "compare_cabins"]
    /\ result' = Return(compare_cabins(flights), <<>>)
    /\ pc' = After(result')
    /\ flights' = [i \in DOMAIN flights |->
                      flights[i] @@ ("cabin_comparison" :> result'.value[i])]
    /\ UNCHANGED <<access_token, token_calls>>

CompareCabins ==
    /\ pc = "start"
    /\ call' = [fn |-> "compare_cabins"]
    /\ result' = Return(compare_cabins(flights), <<>>)
    /\ pc' = After(result')
    /\ UNCHANGED <<flights, access_token, token_calls>>

CalculateAveragePriceByAirline ==
    /\ pc = "start"
    /\ call' = [fn |-> "calculate_average_price_by_airline"]
    /\ result' = Return(calculate_average_price_by_airline(flights), <<>>)
    /\ pc' = After(result')
    /\ UNCHANGED <<flights, access_token, token_calls>>

AnalyzePricesByWeekday ==
    /\ pc = "start"
    /\ call' = [fn |-> "analyze_prices_by_weekday"]
    /\ result' = Return(analyze_prices_by_weekday(flights), <<>>)
    /\ pc' = After(result')
    /\ UNCHANGED <<flights, access_token, token_calls>>

\* main.py passes show_seat_availability=False: no seat map is requested
DisplayFlightOptions(show_cabin_class, show_price, show_airline, limit) ==
    /\ pc = "start"
    /\ call' = [fn |-> "display_flight_options", show_cabin_class |-> show_cabin_class,
                show_seat_availability |-> FALSE, show_price |-> show_price,
                show_airline |-> show_airline, limit |-> limit]
    /\ result' = display_flight_options(flights, call')
    /\ pc' = After(result')
    /\ UNCHANGED <<flights, access_token, token_calls>>

DisplayCabinClasses ==
    /\ pc = "start"
    /\ call' = [fn |-> "display_cabin_classes"]
    /\ result' = display_cabin_classes(flights)
    /\ pc' = After(result')
    /\ UNCHANGED <<flights, access_token, token_calls>>

InitPipeline ==
    /\ flights \in SeqsUpTo(PipelineOffers, MaxFlights)
    /\ call = NoCall
    /\ result = NoResult
    /\ pc = "start"
    /\ Constructed

NextPipeline ==
    \/ CalculateStatistics
    \/ CompareCabins
    \/ CalculateAveragePriceByAirline
    \/ AnalyzePricesByWeekday
    \/ \E cc \in BOOLEAN, p \in BOOLEAN, a \in BOOLEAN, l \in LimitArgs :
           DisplayFlightOptions(cc, p, a, l)
    \/ DisplayCabinClasses
    \/ \E d \in MaxDurationArgs, s \in MaxStopsArgs, a \in AirlinesArgs, c \in CabinArgs :
           FilterFlights(d, s, a, c)
    \/ Proceed

SpecPipeline == InitPipeline /\ [][NextPipeline]_vars

-----------------------------------------------------------------------------
(* Properties of filter_flights *)

FilterReturned == call.fn = "filter_flights" /\ result.kind = "return"

Retained(f) == f \in Range(result.value)

HasItinerary(f) == Len(f.itineraries) >= 1

\* no criterion other than the cabin excludes f
OthersKeep(f) == add_flight(f, [call EXCEPT !.cabin_class = None])

QuotesCabin(traveler, cabin) ==
    \E d \in DOMAIN traveler.fareDetailsBySegment :
        traveler.fareDetailsBySegment[d].cabin = cabin

SomeTravelerQuotes(f, cabin) ==
    \E t \in DOMAIN f.travelerPricings : QuotesCabin(f.travelerPricings[t], cabin)

EveryTravelerQuotes(f, cabin) ==
    \A t \in DOMAIN f.travelerPricings : QuotesCabin(f.travelerPricings[t], cabin)

\* C1 (as stated): with a cabin_class supplied (a cabin name), an offer that
\* has an itinerary and that no other criterion excludes is retained if and
\* only if at least one traveler's fare details contain the requested cabin.
C1_CabinExistential ==
    (FilterReturned /\ TruthyStr(call.cabin_class)) =>
        \A i \in DOMAIN flights :
            (HasItinerary(flights[i]) /\ OthersKeep(flights[i])) =>
                (Retained(flights[i]) <=>
                     SomeTravelerQuotes(flights[i], call.cabin_class[1]))

\* C1 (amended): with a non-empty cabin_class supplied, an offer that has an
\* itinerary and that no other criterion excludes is retained if and only if
\* every traveler's fare details contain the requested cabin; an offer with
\* two travelers of whom only one quotes the cabin is dropped.
C1_CabinEveryTraveler ==
    (FilterReturned /\ TruthyStr(call.cabin_class)) =>
        \A i \in DOMAIN flights :
            (HasItinerary(flights[i]) /\ OthersKeep(flights[i])) =>
                (Retained(flights[i]) <=>
                     EveryTravelerQuotes(flights[i], call.cabin_class[1]))

\* an offer with two travelers, only one of them in BUSINESS, was filtered on
\* BUSINESS alone and dropped, while a BUSINESS-only offer was kept
C1_Witness ==
    /\ FilterReturned
    /\ call.cabin_class = Some("BUSINESS")
    /\ call.max_duration = None /\ call.max_stops = None /\ call.airlines = None
    /\ \E i \in DOMAIN flights :
           /\ HasItinerary(flights[i])
           /\ Len(flights[i].travelerPricings) = 2
           /\ SomeTravelerQuotes(flights[i], "BUSINESS")
           /\ ~EveryTravelerQuotes(flights[i], "BUSINESS")
           /\ ~Retained(flights[i])
    /\ \E i \in DOMAIN flights :
           /\ HasItinerary(flights[i])
           /\ Len(flights[i].travelerPricings) >= 1
           /\ Retained(flights[i])

WithinStops(f, n) ==
    \A i \in DOMAIN f.itineraries : \A j \in DOMAIN f.itineraries[i].segments :
        f.itineraries[i].segments[j].numberOfStops <= n

\* C2 (as stated): with only max_stops = n supplied, n >= 0, the result is
\* exactly the offers none of whose segments has numberOfStops > n.
C2_MaxStopsExact ==
    (/\ call.fn = "filter_flights"
     /\ call.max_stops # None
     /\ call.max_duration = None /\ call.airlines = None /\ call.cabin_class = None)
    => LET Keep(f) == WithinStops(f, call.max_stops[1])
       IN  result.kind = "return" /\ result.value = SelectSeq(flights, Keep)

\* C3 (as stated): whenever airlines is supplied, every offer of the result
\* has its validating airline in the list, whatever its number of itineraries.
C3_AirlineInList ==
    (FilterReturned /\ call.airlines # None) =>
        \A i \in DOMAIN result.value :
            result.value[i].validatingAirlineCodes[1] \in Range(call.airlines[1])

NoCriteria ==
    /\ call.fn = "filter_flights"
    /\ call.max_duration = None /\ call.max_stops = None
    /\ call.airlines = None /\ call.cabin_class = None

\* C4: with no criterion supplied, filter_flights returns the input list:
\* the same offers in the same order.
C4_NoCriteriaIdentity ==
    NoCriteria => (result.kind = "return" /\ result.value = flights)

\* two different offers, the first with a segment that makes stops, went
\* through the filter without criteria
C4_Witness ==
    /\ NoCriteria
    /\ result.kind = "return"
    /\ Len(flights) >= 2
    /\ flights[1] # flights[2]
    /\ ~WithinStops(flights[1], 0)

-----------------------------------------------------------------------------
(* Properties of count_seats *)

\* the seat entries of a seat map, each named by its deck and its position
SeatEntries(seatmap) ==
    {<<d, i>> \in (DOMAIN seatmap.decks) \X (1..MaxSeats + 1) :
         i \in DOMAIN seatmap.decks[d].seats}

IsAvailable(seat) ==
    \E p \in DOMAIN seat.travelerPricing :
        seat.travelerPricing[p].seatAvailabilityStatus = "AVAILABLE"

\* data[0].decks[].seats[].travelerPricing[] are all present
WellFormed(seatmap_data) ==
    /\ HasData(seatmap_data)
    /\ Len(seatmap_data.dict.data) >= 1
    /\ LET seatmap == seatmap_data.dict.data[1]
       IN  /\ "decks" \in DOMAIN seatmap
           /\ \A d \in DOMAIN seatmap.decks :
                  /\ "seats" \in DOMAIN seatmap.decks[d]
                  /\ \A i \in DOMAIN seatmap.decks[d].seats :
                         "travelerPricing" \in DOMAIN seatmap.decks[d].seats[i]

\* C5 (as stated): on a well-formed seat map count_seats returns
\* (available, total), total the number of seat entries over all decks and
\* available the number of seat entries with at least one AVAILABLE
\* travelerPricing entry; hence available <= total.
C5_CountsSeatEntries ==
    (call.fn = "count_seats" /\ WellFormed(call.seatmap_data)) =>
        LET seatmap == call.seatmap_data.dict.data[1]
            total == Cardinality(SeatEntries(seatmap))
            available ==
                Cardinality({e \in SeatEntries(seatmap) :
                                 IsAvailable(seatmap.decks[e[1]].seats[e[2]])})
        IN  /\ result.kind = "return"
            /\ result.value = <<available, total>>
            /\ result.value[1] <= result.value[2]

\* the response lacks data[0].decks[].seats[]
LacksStructure(seatmap_data) ==
    \/ ~HasData(seatmap_data)
    \/ Len(seatmap_data.dict.data) = 0
    \/ "decks" \notin DOMAIN seatmap_data.dict.data[1]
    \/ \E d \in DOMAIN seatmap_data.dict.data[1].decks :
           "seats" \notin DOMAIN seatmap_data.dict.data[1].decks[d]

\* C6 (as stated): on a response that lacks the data[0].decks[].seats[]
\* structure count_seats returns (0, 0) and prints the unexpected-structure
\* message, without raising.
C6_MalformedIsZeroWithMessage ==
    (call.fn = "count_seats" /\ LacksStructure(call.seatmap_data)) =>
        result = Return(<<0, 0>>, <<UnexpectedMsg>>)

-----------------------------------------------------------------------------
(* Properties of estimate_flight_cost *)

EstimateCalled == call.fn = "estimate_flight_cost"

Resolved == call.departure_coords # None /\ call.arrival_coords # None

DistanceKm == geodesic_km(call.departure_coords, call.arrival_coords)

\* C7 (as stated): when either airport's coordinates are unresolvable the
\* estimator reports the failure of that one estimate; the failure is
\* absorbed, it is not an uncaught exception that ends the run.
C7_DistanceFailureAbsorbed ==
    (EstimateCalled /\ ~Resolved) => (result.kind = "return" /\ pc # "terminated")

\* C8: with passengers = 0 and a resolved distance the call ends in a
\* ZeroDivisionError; it returns no result record.
C8_ZeroPassengersRaises ==
    (EstimateCalled /\ Resolved /\ call.passengers = 0) =>
        result = Raise("ZeroDivisionError")

\* zero passengers on a route of positive length at a positive fuel price
C8_Witness ==
    /\ EstimateCalled /\ Resolved
    /\ call.passengers = 0
    /\ RLess(FromInt(0), DistanceKm)
    /\ RLess(FromInt(0), call.fuel_price_per_litre)
    /\ result.kind = "raise"

IncreasingInFuelPrice ==
    \A f \in FuelPriceArgs :
        RLess(call.fuel_price_per_litre, f) =>
            RLess(result.value.total_cost, total_cost(call.passengers, DistanceKm, f))

IncreasingInPassengers ==
    \A p \in PassengerArgs :
        p > call.passengers =>
            RLess(result.value.total_cost,
                  total_cost(p, DistanceKm, call.fuel_price_per_litre))

\* C9 (as stated): for every resolved distance, the total cost is strictly
\* increasing in the fuel price (passengers >= 1 fixed) and strictly
\* increasing in passengers (fuel price fixed).
C9_StrictlyIncreasing ==
    (EstimateCalled /\ result.kind = "return") =>
        (IncreasingInFuelPrice /\ IncreasingInPassengers)

\* C9 (amended): for every resolved distance D > 0, the total cost is
\* strictly increasing in the fuel price (passengers >= 1 fixed) and, at a
\* fuel price > 0, strictly increasing in passengers; at D = 0 it is the
\* airport fee whatever the fuel price and the passengers.
C9_StrictlyIncreasingOnRoute ==
    (EstimateCalled /\ result.kind = "return") =>
        IF RLess(FromInt(0), DistanceKm)
        THEN /\ IncreasingInFuelPrice
             /\ RLess(FromInt(0), call.fuel_price_per_litre) => IncreasingInPassengers
        ELSE result.value.total_cost = FromInt(airport_fees)

\* an estimate on a route of positive length at a positive fuel price, with
\* a dearer fuel price and a larger passenger count to compare with
C9_Witness ==
    /\ EstimateCalled /\ result.kind = "return"
    /\ RLess(FromInt(0), DistanceKm)
    /\ RLess(FromInt(0), call.fuel_price_per_litre)
    /\ \E f \in FuelPriceArgs : RLess(call.fuel_price_per_litre, f)
    /\ \E p \in PassengerArgs : p > call.passengers

-----------------------------------------------------------------------------
(* Properties of calculate_statistics *)

\* the positions in flights of the offers validated by airline a
OffersOf(a) == {i \in DOMAIN flights : flights[i].validatingAirlineCodes[1] = a}

Total(i) == PyFloat(flights[i].price.total)

RECURSIVE SumOfTotals(_)
SumOfTotals(I) ==
    IF I = {} THEN FromInt(0)
    ELSE LET i == CHOOSE j \in I : TRUE
         IN  RAdd(Total(i), SumOfTotals(I \ {i}))

\* m is the statistical median of the totals at the positions I: in some
\* arrangement of I by non-decreasing total, m is the middle total, or the
\* average of the two middle totals when their number is even
IsMedianOfTotals(m, I) ==
    LET n == Cardinality(I)
    IN  \E o \in [1..n -> I] :
            /\ \A j, k \in 1..n : j # k => o[j] # o[k]
            /\ \A j \in 1..(n - 1) : ~RLess(Total(o[j + 1]), Total(o[j]))
            /\ IF n % 2 = 1
               THEN m = Total(o[(n + 1) \div 2])
               ELSE RMul(m, FromInt(2)) =
                        RAdd(Total(o[n \div 2]), Total(o[n \div 2 + 1]))

\* C10: on a non-empty list calculate_statistics returns exactly one entry
\* per distinct validating airline; its mean is the arithmetic mean of that
\* airline's price.total values and its median their statistical median
\* (the average of the two middle values for an even number of them).
C10_MeanAndMedianOfTotals ==
    (call.fn = "calculate_statistics" /\ flights # <<>>) =>
        /\ result.kind = "return"
        /\ DOMAIN result.value =
               {flights[i].validatingAirlineCodes[1] : i \in DOMAIN flights}
        /\ \A a \in DOMAIN result.value :
               /\ RMul(result.value[a].mean, FromInt(Cardinality(OffersOf(a))))
                      = SumOfTotals(OffersOf(a))
               /\ IsMedianOfTotals(result.value[a].median, OffersOf(a))

\* two airlines, one with an even number of offers at different totals in
\* decreasing order, the other with an odd number
C10_Witness ==
    /\ call.fn = "calculate_statistics"
    /\ result.kind = "return"
    /\ Cardinality(DOMAIN result.value) = 2
    /\ \E a \in DOMAIN result.value :
           /\ Cardinality(OffersOf(a)) = 2
           /\ \E i, j \in OffersOf(a) : i < j /\ RLess(Total(j), Total(i))
           /\ result.value[a].median \notin {Total(i) : i \in OffersOf(a)}
    /\ \E a \in DOMAIN result.value : Cardinality(OffersOf(a)) % 2 = 1

-----------------------------------------------------------------------------
(* Properties of compare_cabins *)

CabinsOf(f) ==
    UNION {{f.travelerPricings[t].fareDetailsBySegment[d].cabin :
                d \in DOMAIN f.travelerPricings[t].fareDetailsBySegment} :
           t \in DOMAIN f.travelerPricings}

TravelerTotal(f, t) == PyFloat(f.travelerPricings[t].price.total)

\* C11: compare_cabins returns one mapping per input offer, in input order;
\* in the mapping of an offer each cabin that occurs in some traveler's
\* fareDetailsBySegment maps to the minimum of price.total over the travelers
\* quoting that cabin, and no other cabin appears.
C11_CheapestPerCabin ==
    (call.fn = "compare_cabins") =>
        /\ result.kind = "return"
        /\ DOMAIN result.value = DOMAIN flights
        /\ \A i \in DOMAIN flights :
               /\ DOMAIN result.value[i] = CabinsOf(flights[i])
               /\ \A c \in DOMAIN result.value[i] :
                      /\ \E t \in DOMAIN flights[i].travelerPricings :
                             /\ QuotesCabin(flights[i].travelerPricings[t], c)
                             /\ result.value[i][c] = TravelerTotal(flights[i], t)
                      /\ \A t \in DOMAIN flights[i].travelerPricings :
                             QuotesCabin(flights[i].travelerPricings[t], c) =>
                                 ~RLess(TravelerTotal(flights[i], t), result.value[i][c])

\* travelers quoting ECONOMY at 100, ECONOMY at 80 and BUSINESS at 300 gave
\* {ECONOMY: 80, BUSINESS: 300}, as the second of two different mappings
C11_Witness ==
    /\ call.fn = "compare_cabins"
    /\ result.kind = "return"
    /\ Len(flights) = 2
    /\ result.value[1] # result.value[2]
    /\ result.value[2] = ("ECONOMY" :> <<80, 1>>) @@ ("BUSINESS" :> <<300, 1>>)
    /\ TravelerTotal(flights[2], 1) = <<100, 1>>

-----------------------------------------------------------------------------
(* The aggregation functions on an empty offer list *)

Aggregations ==
    {"calculate_statistics", "calculate_average_price_by_airline",
     "analyze_prices_by_weekday", "compare_cabins", "filter_flights"}

\* C12: on an empty offer list every aggregation function returns without
\* raising; calculate_statistics, calculate_average_price_by_airline and
\* analyze_prices_by_weekday return a mapping without keys, compare_cabins and
\* filter_flights (whatever the criteria) return a sequence without elements.
C12_EmptyInEmptyOut ==
    (flights = <<>> /\ call.fn \in Aggregations) =>
        /\ result.kind = "return"
        /\ DOMAIN result.value = {}
        /\ call.fn \in {"compare_cabins", "filter_flights"} => Len(result.value) = 0

\* filter_flights returned from an empty list although every criterion was
\* supplied
C12_Witness ==
    /\ flights = <<>>
    /\ call.fn = "filter_flights"
    /\ call.max_duration # None
    /\ call.max_stops = Some(1)
    /\ TruthyList(call.airlines)
    /\ TruthyStr(call.cabin_class)
    /\ result.kind = "return"
    /\ pc = "returned"

-----------------------------------------------------------------------------
(* The argument of the aggregation functions *)

\* C13: no aggregation function mutates its argument: over any sequence of
\* calls of calculate_statistics, calculate_average_price_by_airline,
\* analyze_prices_by_weekday, compare_cabins and filter_flights on the same
\* offer list, every step leaves the list and every offer record in it as
\* they were (same elements, same order, same field values).
C13_ArgumentUnchanged == [][flights' = flights]_vars

\* filter_flights returned a strict part of a two-offer list, which is
\* still the two-offer list
C13_Witness ==
    /\ call.fn = "filter_flights"
    /\ pc = "returned"
    /\ Len(flights) = 2
    /\ flights[1] # flights[2]
    /\ Len(result.value) = 1
    /\ result.value[1] = flights[2]

-----------------------------------------------------------------------------
(* Properties of _get_duration *)

OrZero(o) == IF o = None THEN 0 ELSE o[1]

DurationCall(parts) ==
    call.fn = "_get_duration" /\ call.duration_str = FormatDuration(parts)

Unsupported(parts) == parts.days # None \/ parts.seconds # None

\* C14: on a duration string with a component outside PT[nH][nM] (a day
\* part as in P1DT2H, seconds as in PT1H30S or PT30S) _get_duration does not
\* raise and returns 60*hours + minutes of the supported components
\* present, an absent one counting 0.
C14_UnsupportedTruncated ==
    \A parts \in DurationParts :
        (DurationCall(parts) /\ Unsupported(parts)) =>
            /\ result.kind = "return"
            /\ result.value = 60 * OrZero(parts.hours) + OrZero(parts.minutes)

\* C15: for non-negative integers h and m, _get_duration returns 60*h + m on
\* PT{h}H{m}M, m on PT{m}M and 60*h on PT{h}H.
C15_MinutesOfHoursAndMinutes ==
    \A parts \in DurationParts :
        (DurationCall(parts) /\ ~Unsupported(parts)) =>
            /\ result.kind = "return"
            /\ result.value = 60 * OrZero(parts.hours) + OrZero(parts.minutes)

\* PT10H45M gave 645
C15_Witness ==
    /\ call.fn = "_get_duration"
    /\ call.duration_str = <<"P", "T", "1", "0", "H", "4", "5", "M">>
    /\ result.kind = "return"
    /\ result.value = 645

-----------------------------------------------------------------------------
(* Properties of analyze_prices_by_weekday *)

\* <<i, j, k>>: segment k of itinerary j of offer i
SegmentPositions ==
    UNION {UNION {{<<i, j, k>> : k \in DOMAIN flights[i].itineraries[j].segments} :
                  j \in DOMAIN flights[i].itineraries} :
           i \in DOMAIN flights}

DepartsOn(W) ==
    {p \in SegmentPositions :
        _get_weekday(flights[p[1]].itineraries[p[2]].segments[p[3]].departure.at) = W}

\* sum of the owning offers' grandTotal over a set of segment positions
RECURSIVE GrandTotalOver(_)
GrandTotalOver(S) ==
    IF S = {} THEN FromInt(0)
    ELSE LET p == CHOOSE q \in S : TRUE
         IN  RAdd(PyFloat(flights[p[1]].price.grandTotal), GrandTotalOver(S \ {p}))

\* C16: analyze_prices_by_weekday accumulates per segment, not per offer: a
\* weekday is a key of the result exactly when some segment (of any itinerary
\* of any offer) departs on it, and its value is the sum, over the segments
\* departing on it, of the owning offer's grandTotal, divided by the number
\* of those segments.
C16_AveragePerSegment ==
    (call.fn = "analyze_prices_by_weekday") =>
        /\ result.kind = "return"
        /\ \A W \in Range(DayNames) :
               /\ W \in DOMAIN result.value <=> DepartsOn(W) # {}
               /\ W \in DOMAIN result.value =>
                      result.value[W] = RDiv(GrandTotalOver(DepartsOn(W)),
                                             FromInt(Cardinality(DepartsOn(W))))

\* an offer at 80 with two Wednesday segments and an offer at 120.50 with one
\* gave Wednesday (80 + 80 + 120.5) / 3
C16_Witness ==
    /\ call.fn = "analyze_prices_by_weekday"
    /\ result.kind = "return"
    /\ Len(flights) = 2
    /\ Cardinality(DepartsOn("Wednesday")) = 3
    /\ PyFloat(flights[1].price.grandTotal) = <<80, 1>>
    /\ PyFloat(flights[2].price.grandTotal) = <<241, 2>>
    /\ result.value["Wednesday"] = <<187, 2>>

-----------------------------------------------------------------------------
(* The cabin shown for a segment *)

\* every traveler's fare details, in order
AllFares(f) ==
    Flatten([t \in DOMAIN f.travelerPricings |->
                f.travelerPricings[t].fareDetailsBySegment])

\* the cabin of the last fare detail with the segment's id, "Unknown" if the
\* id occurs in none
LastCabin(f, segment) ==
    LET hits == {n \in DOMAIN AllFares(f) : AllFares(f)[n].segmentId = segment.id}
    IN  IF hits = {} THEN "Unknown"
        ELSE AllFares(f)[CHOOSE n \in hits : \A m \in hits : m <= n].cabin

IsCabinLine(line) == line[1] = "    Cabin Class: "

ShownCabins(printed) ==
    LET lines == SelectSeq(printed, IsCabinLine)
    IN  [n \in DOMAIN lines |-> lines[n][2]]

\* C17: the cabin shown for a segment is the one of the last fare detail,
\* over every traveler's fareDetailsBySegment in order, that carries the
\* segment's id, and 'Unknown' when no fare detail carries it; the lookup
\* never fails.  display_flight_options stores and prints it for every
\* segment of every itinerary of the offers shown, display_cabin_classes
\* prints it for the segments of the first itinerary and fails only on an
\* offer without itineraries.
C17_LastTravelerWinsElseUnknown ==
    /\ (call.fn = "display_flight_options" /\ call.show_cabin_class) =>
           /\ result.kind = "return"
           /\ \A i \in DOMAIN result.value :
                  /\ DOMAIN result.value[i].segments = DOMAIN all_segments(flights[i])
                  /\ \A n \in DOMAIN result.value[i].segments :
                         result.value[i].segments[n].cabin_class =
                             LastCabin(flights[i], all_segments(flights[i])[n])
           /\ ShownCabins(result.printed) =
                  Flatten([i \in DOMAIN result.value |->
                              [n \in DOMAIN result.value[i].segments |->
                                  result.value[i].segments[n].cabin_class]])
    /\ (call.fn = "display_cabin_classes") =>
           /\ result.kind = "raise" <=> \E i \in DOMAIN flights : flights[i].itineraries = <<>>
           /\ result.kind = "return" =>
                  ShownCabins(result.printed) =
                      Flatten([i \in DOMAIN flights |->
                                  [k \in DOMAIN flights[i].itineraries[1].segments |->
                                      LastCabin(flights[i], flights[i].itineraries[1].segments[k])]])

\* segment 1, ECONOMY for the first traveler and BUSINESS for the second, is
\* shown as BUSINESS, and a segment no traveler quotes as Unknown
C17_Witness ==
    /\ call.fn = "display_flight_options"
    /\ call.show_cabin_class
    /\ result.kind = "return"
    /\ Len(result.value) = 2
    /\ flights[1].travelerPricings[1].fareDetailsBySegment = <<Fare("1", "ECONOMY")>>
    /\ flights[1].travelerPricings[2].fareDetailsBySegment[1] = Fare("1", "BUSINESS")
    /\ result.value[1].segments[1].cabin_class = "BUSINESS"
    /\ \E n \in DOMAIN result.value[2].segments :
           result.value[2].segments[n].cabin_class = "Unknown"

-----------------------------------------------------------------------------
(* The stored access token *)

Is200(response) == response.kind = "response" /\ response.status_code = 200

LastCall == token_calls[Len(token_calls)]

\* a call of get_access_token, from __init__ or from the caller
TokenCall == pc \in {"new", "start"} /\ pc' \in {"returned", "terminated"}

\* C18: over any sequence of get_access_token calls on one scanner, whatever
\* the token endpoint answers, access_token changes at most once, from None
\* to the token of the first 200 response; a call made while it is None posts
\* a request, and a response other than 200 leaves it None; once it is set
\* no later call posts a request or changes it.
C18_TokenFetchedOnce ==
    [][/\ TokenCall => token_calls' = Append(token_calls, LastCall')
       /\ access_token # None =>
              /\ access_token' = access_token
              /\ TokenCall => LastCall' = NoRequest
       /\ access_token' # access_token =>
              /\ access_token = None
              /\ TokenCall
              /\ \A n \in DOMAIN token_calls : ~Is200(token_calls[n])
              /\ Is200(LastCall')
              /\ access_token' = Some(LastCall'.access_token)
       /\ (access_token = None /\ TokenCall) =>
              /\ LastCall' # NoRequest
              /\ ~Is200(LastCall') => access_token' = None
      ]_vars

\* after a 401 and a 200 carrying tokB, two further calls posted no request
\* and the last returned tokB
C18_Witness ==
    /\ call.fn = "get_access_token"
    /\ pc = "returned"
    /\ token_calls = <<TokenResponse(401, ""), TokenResponse(200, "tokB"),
                       NoRequest, NoRequest>>
    /\ access_token = Some("tokB")
    /\ result.value = Some("tokB")

====
